---- MODULE Spec2Model ----
(***************************************************************************)
(* tinypipeline: a Pipeline owns a lazily materialized step collection     *)
(* (a list, or a dict read as a dependency graph), resolves an execution   *)
(* order and runs the steps one after the other, stopping at the first     *)
(* failure.  Modelled from src/tinypipeline/pipeline.py and step.py.       *)
(***************************************************************************)
EXTENDS Integers, Sequences, FiniteSets, TLC

(* ------------------------------ bounds -------------------------------- *)

\* Size of an enumerated collection: elements of a list or tuple; keys plus
\* listed dependencies of a dict.  A collection of that size holds at most
\* MaxSize different Steps.
MaxSize == 4
\* Calls of Pipeline.run() on the one Pipeline instance.
MaxRuns == 2
\* Factory invocations an outside reader of `steps` may cause.
MaxFactoryCalls == 2

(* ----------------------------- elements ------------------------------- *)

\* An object that is not a Step instance (the test's string "step_one").
NotAStep == 0

step_one == 1
step_two == 2
step_three == 3
step_four == 4
step_five == 5

\* isinstance(s, Step)
IsStep(s) == s # NotAStep

(* ---------------------------- collections ----------------------------- *)
\* What the factory `func` can return.  shape is the Python type of the
\* value: "list", "dict", "tuple" (a sequence that is not a List), "step"
\* (a bare Step object), "none" (None).  items holds a list's or tuple's
\* elements in order, or a dict's entries <<key, dependencies>> in
\* insertion order.

List(xs) == [shape |-> "list", items |-> xs]
Dict(es) == [shape |-> "dict", items |-> es]
Tuple(xs) == [shape |-> "tuple", items |-> xs]
BareStep == [shape |-> "step", items |-> <<>>]
None == [shape |-> "none", items |-> <<>>]

Keys(es) == [i \in 1..Len(es) |-> es[i][1]]

Range(xs) == {xs[i] : i \in 1..Len(xs)}

\* The engine never looks at which Step is which, so of the collections
\* that differ only in the naming of their Steps one is enumerated: the
\* one whose Steps are numbered 1, 2, ... in order of first appearance.
\* After m Steps have appeared, the next element is NotAStep, one of
\* those m Steps, or Step m + 1.
NextElems(m) == {NotAStep} \cup (1..(m + 1))

\* The number of Steps that have appeared after xs, m having appeared before.
Highest(xs, m) == CHOOSE h \in Range(xs) \cup {m} : \A x \in Range(xs) \cup {m} : x <= h

\* Element sequences of length at most n.
RECURSIVE SeqsFrom(_, _)
SeqsFrom(n, m) ==
    {<<>>} \cup
    UNION {{<<x>> \o r : r \in SeqsFrom(n - 1, Highest(<<x>>, m))} :
           x \in (IF n > 0 THEN NextElems(m) ELSE {})}

\* Dict entry lists of at most b keys-plus-dependencies, keys distinct.
RECURSIVE DictItemsFrom(_, _, _)
DictItemsFrom(b, m, used) ==
    {<<>>} \cup
    UNION {UNION {{<<<<k, ds>>>> \o rest :
                        rest \in DictItemsFrom(b - 1 - Len(ds),
                                               Highest(ds, Highest(<<k>>, m)),
                                               used \cup {k})} :
                  ds \in SeqsFrom(b - 1, Highest(<<k>>, m))} :
           k \in (IF b > 0 THEN NextElems(m) \ used ELSE {})}

\* The mapping of test_pipeline_completion_with_dict_ordering.
TestMapping ==
    Dict(<< <<step_five, <<step_two>>>>,
            <<step_two, <<step_three>>>>,
            <<step_three, <<step_four, step_one>>>>,
            <<step_four, <<step_one>>>> >>)

Collections ==
    {List(xs) : xs \in SeqsFrom(MaxSize, 0)}
    \cup {Tuple(xs) : xs \in SeqsFrom(MaxSize, 0)}
    \cup {Dict(es) : es \in DictItemsFrom(MaxSize, 0, {})}
    \cup {BareStep, None, TestMapping}

\* Mutant: only None counts as "no steps".
Truthy_NoneOnly(c) == c.shape # "none"

\* bool(steps): containers are falsy when empty, None is falsy, any other
\* object is truthy.
Truthy(c) ==
    CASE c.shape = "none" -> FALSE
      [] c.shape = "step" -> TRUE
      [] OTHER -> Len(c.items) > 0

(* ---------------------- graphlib.TopologicalSorter -------------------- *)
\* TopologicalSorter(graph): add(node, *predecessors) for every entry, in
\* insertion order.

\* The nodes in the order add() first meets them: a key, then its
\* predecessors.
RECURSIVE Mentions(_)
Mentions(es) ==
    IF es = <<>> THEN <<>>
    ELSE <<es[1][1]>> \o es[1][2] \o Mentions(Tail(es))

RECURSIVE FirstSeen(_, _)
FirstSeen(xs, acc) ==
    IF xs = <<>> THEN acc
    ELSE FirstSeen(Tail(xs),
                   IF Head(xs) \in Range(acc) THEN acc ELSE Append(acc, Head(xs)))

NodeOrder(es) == FirstSeen(Mentions(es), <<>>)

Nodes(es) == Range(NodeOrder(es))

\* The edges <<node, predecessor>> in the order add() records them.
RECURSIVE Edges(_)
Edges(es) ==
    IF es = <<>> THEN <<>>
    ELSE [i \in 1..Len(es[1][2]) |-> <<es[1][1], es[1][2][i]>>] \o Edges(Tail(es))

\* nodeinfo.npredecessors after construction.
NPredecessors(es, n) ==
    Cardinality({i \in 1..Len(Edges(es)) : Edges(es)[i][1] = n})

\* Mutant: the edge is read the wrong way round.
Successors_Predecessors(es, n) ==
    LET hit == SelectSeq(Edges(es), LAMBDA e : e[1] = n)
    IN  [i \in 1..Len(hit) |-> hit[i][2]]

\* nodeinfo.successors after construction, in append order.
Successors(es, n) ==
    LET hit == SelectSeq(Edges(es), LAMBDA e : e[2] = n)
    IN  [i \in 1..Len(hit) |-> hit[i][1]]

\* Mutant: only a node that lists itself counts as a cycle.
HasCycle_SelfLoopOnly(es) == \E e \in Range(Edges(es)) : e[1] = e[2]

\* _find_cycle() finds a cycle exactly when some node reaches itself.
RECURSIVE ReachFrom(_, _)
ReachFrom(es, S) ==
    LET T == S \cup {e[2] : e \in {x \in Range(Edges(es)) : x[1] \in S}}
    IN  IF T = S THEN S ELSE ReachFrom(es, T)

HasCycle(es) ==
    \E e \in Range(Edges(es)) : e[1] \in ReachFrom(es, {e[2]})

\* Mutant: a successor becomes ready as soon as one predecessor is done.
RECURSIVE DoneSuccessors_Eager(_, _)
DoneSuccessors_Eager(st, succs) ==
    IF succs = <<>> THEN st
    ELSE LET s == Head(succs)
             np == st.npred[s] - 1
         IN  DoneSuccessors_Eager(
                 [npred |-> [st.npred EXCEPT ![s] = np],
                  ready |-> Append(st.ready, s)],
                 Tail(succs))

\* done(node): every successor loses one predecessor and becomes ready at 0.
RECURSIVE DoneSuccessors(_, _)
DoneSuccessors(st, succs) ==
    IF succs = <<>> THEN st
    ELSE LET s == Head(succs)
             np == st.npred[s] - 1
         IN  DoneSuccessors(
                 [npred |-> [st.npred EXCEPT ![s] = np],
                  ready |-> IF np = 0 THEN Append(st.ready, s) ELSE st.ready],
                 Tail(succs))

RECURSIVE DoneNodes(_, _, _)
DoneNodes(es, st, nodes) ==
    IF nodes = <<>> THEN st
    ELSE DoneNodes(es, DoneSuccessors(st, Successors(es, Head(nodes))), Tail(nodes))

\* static_order()'s loop: while is_active(): group = get_ready(); yield the
\* group; done(*group).
RECURSIVE StaticOrderLoop(_, _, _)
StaticOrderLoop(es, st, out) ==
    IF st.ready = <<>> THEN out
    ELSE StaticOrderLoop(es,
                         DoneNodes(es, [st EXCEPT !.ready = <<>>], st.ready),
                         out \o st.ready)

\* list(ts.static_order()) of an acyclic graph; prepare() makes the ready
\* list from the nodes without predecessors, in node order.
static_order(es) ==
    StaticOrderLoop(
        es,
        [npred |-> [n \in Nodes(es) |-> NPredecessors(es, n)],
         ready |-> SelectSeq(NodeOrder(es), LAMBDA n : NPredecessors(es, n) = 0)],
        <<>>)

reversed(xs) == [i \in 1..Len(xs) |-> xs[Len(xs) + 1 - i]]

(* ------------------------------ errors -------------------------------- *)
\* An exception is its class and its message; the message is the sequence
\* of the parts it is formatted from.

NoError == [type |-> "None", msg |-> <<>>]

\* The arguments of @pipeline(name=..., version=..., description=...).
name == "test_pipeline"
version == "1.0.0"
description == "Test pipeline"

\* type(func) of the argument the decorator is applied to: a function, or
\* something that is not callable (the test passes the str "").
FunctionType == "<class 'function'>"
NonCallableTypes == {"<class 'str'>", "<class 'int'>"}

\* isinstance(func, Callable)
IsCallable(t) == t = FunctionType

\* raise TypeError(f"The pipeline decorator only accepts functions. Passed {type(func)}")
NotAFunction(t) ==
    [type |-> "TypeError",
     msg |-> <<"The pipeline decorator only accepts functions. Passed ", t>>]

\* raise Exception(f"Pipeline {self.name} has no steps to run.")
PipelineEmpty ==
    [type |-> "Exception", msg |-> <<"Pipeline ", name, " has no steps to run.">>]

\* raise TypeError("Pipeline steps must be in a list or a dict.")
NotListOrDict ==
    [type |-> "TypeError", msg |-> <<"Pipeline steps must be in a list or a dict.">>]

\* raise TypeError("Not a valid step. Consider using ...")
NotAValidStep ==
    [type |-> "TypeError",
     msg |-> <<"Not a valid step. Consider using the step decorator to create steps for your pipeline.">>]

\* graphlib.CycleError, raised by prepare() inside static_order().
CycleError == [type |-> "CycleError", msg |-> <<"nodes are in a cycle">>]

\* step.name of an object that is not a Step.
NoNameAttribute ==
    [type |-> "AttributeError", msg |-> <<"object has no attribute 'name'">>]

\* What the factory raises when it fails (opaque to the engine).
FactoryError == [type |-> "RuntimeError", msg |-> <<"factory failed">>]

\* What a work item can raise (opaque to the engine); the first is the
\* test's Exception("Something went wrong").
Failures ==
    {[type |-> "Exception", msg |-> <<"Something went wrong">>],
     [type |-> "ValueError", msg |-> <<"bad value">>]}

(* ----------------------------- Pipeline ------------------------------- *)

\* Mutant: whatever is not a dict is taken as linear.
ordering_DefaultLinear(c) == IF c.shape = "dict" THEN "nonlinear" ELSE "linear"

\* Pipeline.ordering
ordering(c) ==
    IF c.shape = "list" THEN "linear"
    ELSE IF c.shape = "dict" THEN "nonlinear"
    ELSE "TypeError"

\* Mutant: the list is run back to front.
linear_steps_Reversed(c) == reversed(c.items)

\* _steps = self.steps
linear_steps(c) == c.items

\* Mutant: the topological order is not reversed.
nonlinear_steps_NotReversed(c) == static_order(c.items)

\* _steps = list(reversed(list(ts.static_order())))
nonlinear_steps(c) == reversed(static_order(c.items))

\* `for s in self.steps`: a list yields its elements, a dict its keys.
Iterate(c) == IF c.shape = "dict" THEN Keys(c.items) ELSE c.items

\* Mutant: only the first element is validated.
AllSteps_FirstOnly(c) == Iterate(c) = <<>> \/ IsStep(Iterate(c)[1])

\* all(isinstance(s, Step) for s in self.steps)
AllSteps(c) == \A i \in 1..Len(Iterate(c)) : IsStep(Iterate(c)[i])

\* Mutant: the Step validation is made before the cycle detection.
get_steps_ValidatesFirst(c) ==
    IF ordering(c) = "TypeError"
    THEN [raised |-> NotListOrDict, steps |-> <<>>, cache |-> c]
    ELSE IF ~AllSteps(c)
    THEN [raised |-> NotAValidStep, steps |-> <<>>, cache |-> c]
    ELSE IF ordering(c) = "nonlinear" /\ HasCycle(c.items)
    THEN [raised |-> CycleError, steps |-> <<>>, cache |-> c]
    ELSE [raised |-> NoError,
          steps |-> IF ordering(c) = "linear" THEN linear_steps(c)
                    ELSE nonlinear_steps(c),
          cache |-> c]

\* Mutant: the order is resolved in place, self.steps is left reversed.
get_steps_InPlace(c) ==
    IF ordering(c) = "TypeError"
    THEN [raised |-> NotListOrDict, steps |-> <<>>, cache |-> c]
    ELSE IF ordering(c) = "nonlinear" /\ HasCycle(c.items)
    THEN [raised |-> CycleError, steps |-> <<>>, cache |-> c]
    ELSE IF ~AllSteps(c)
    THEN [raised |-> NotAValidStep, steps |-> <<>>, cache |-> c]
    ELSE [raised |-> NoError,
          steps |-> IF ordering(c) = "linear" THEN linear_steps(c)
                    ELSE nonlinear_steps(c),
          cache |-> [shape |-> c.shape, items |-> reversed(c.items)]]

\* Pipeline._get_steps on the cached collection c: the exception it raises
\* (NoError when it returns), the order it returns, and the cached
\* collection afterwards (list(reversed(...)) builds a new list, and the
\* linear branch only aliases self.steps).
get_steps(c) ==
    IF ordering(c) = "TypeError"
    THEN [raised |-> NotListOrDict, steps |-> <<>>, cache |-> c]
    ELSE IF ordering(c) = "nonlinear" /\ HasCycle(c.items)
    THEN [raised |-> CycleError, steps |-> <<>>, cache |-> c]
    ELSE IF ~AllSteps(c)
    THEN [raised |-> NotAValidStep, steps |-> <<>>, cache |-> c]
    ELSE [raised |-> NoError,
          steps |-> IF ordering(c) = "linear" THEN linear_steps(c)
                    ELSE nonlinear_steps(c),
          cache |-> c]

\* Mutant: the failure is wrapped in a new exception.
Reraise_Wrapped(e) ==
    [type |-> "Exception", msg |-> <<"Pipeline failed due to an exception in step">>]

\* `except Exception: print(...); raise` re-raises what it caught.
Reraise(e) == e

(* -------------------------------- Step -------------------------------- *)
\* The outcome of a call: it returns a value or raises an exception.

NoOutcome == [kind |-> "none", value |-> NoError]

PyNone == [type |-> "NoneType", msg |-> <<>>]

\* What a work item returns when it returns (the tests' mocks return
\* "step 1", "step 2", ...).
WorkValue == [type |-> "str", msg |-> <<"step result">>]

WorkOutcomes ==
    {[kind |-> "return", value |-> WorkValue]}
    \cup {[kind |-> "raise", value |-> f] : f \in Failures}

\* Mutant: `return self._callable()`.
Step_run_ReturnsValue(o) == [invocations |-> 1, outcome |-> o]

\* Step.run(), the work item ending with outcome o: self._callable() is
\* called once; what it raises passes through, what it returns is dropped
\* for `return None`.
Step_run(o) ==
    [invocations |-> 1,
     outcome |-> IF o.kind = "raise" THEN o ELSE [kind |-> "return", value |-> PyNone]]

(* ------------------------ pipeline(...) decorator --------------------- *)

\* Mutant: the isinstance check is made when the decorator is applied.
decorator_Checks(t) == IF IsCallable(t) THEN "wrapper" ELSE "failed"

\* decorator(func): wraps func and returns the wrapper, whatever func is.
decorator(t) == "wrapper"

\* Mutant: no isinstance check.
wrapper_NoCheck(t) == [raised |-> NoError, ctor |-> "pipeline"]

\* wrapper(): the isinstance check, then Pipeline(func=func, ...).
wrapper(t) ==
    IF ~IsCallable(t)
    THEN [raised |-> NotAFunction(t), ctor |-> "failed"]
    ELSE [raised |-> NoError, ctor |-> "pipeline"]

\* Pipeline.__init__: the identity fields.
Pipeline_init == [name |-> name, version |-> version, description |-> description]

NoPipeline == [name |-> "", version |-> "", description |-> ""]

(* ------------------------- Pipeline.steps cache ----------------------- *)

\* The cached_property has stored nothing yet.
Unset == [shape |-> "unset", items |-> <<>>]

\* The factory raised instead of returning a collection.
FactoryRaised == [shape |-> "raised", items |-> <<>>]

\* Mutant: a plain property, nothing is stored.
steps_property_Uncached(c, out) == [value |-> out, cache |-> Unset, invoked |-> 1]

\* A read of self.steps with cache c, the factory (if it is invoked) ending
\* with out: the value read, the cache afterwards, the factory invocations.
steps_property(c, out) ==
    IF c # Unset
    THEN [value |-> c, cache |-> c, invoked |-> 0]
    ELSE [value |-> out,
          cache |-> IF out = FactoryRaised THEN Unset ELSE out,
          invoked |-> 1]

AccessKind(r) ==
    IF r.invoked = 0 THEN "cached"
    ELSE IF r.value = FactoryRaised THEN "raised" ELSE "returned"

(* ------------------------------- state -------------------------------- *)

VARIABLES
    arg_type,      \* type(func) of the argument given to the decorator
    func,          \* what the factory self._func returns when it returns
    ctor,          \* "none", "wrapper" (decorator applied), "pipeline"
                   \* (wrapper() returned the Pipeline), "failed" (it raised)
    ctor_error,    \* what wrapper() raised
    ident,         \* the Pipeline's name, version, description
    cache,         \* what cached_property `steps` holds (Unset before)
    factoryCalls,  \* invocations of the factory so far
    access,        \* the latest read of `steps`: "none", "cached" (served from
                   \* the cache), "returned" or "raised" (by the factory)
    runs,          \* calls of run() so far
    pc,            \* the current run(): "idle", "running", "completed", "failed"
    step_order,    \* run()'s step_order
    idx,           \* position in step_order of the step the loop runs next
    calls,         \* the Steps whose work item this run() has invoked, in order
    work,          \* outcome of the latest work-item call
    step_run,      \* outcome of the latest Step.run()
    raised,        \* what the failing work item raised
    error          \* what run() raised to its caller

vars ==
    <<arg_type, func, ctor, ctor_error, ident, cache, factoryCalls, access, runs,
      pc, step_order, idx, calls, work, step_run, raised, error>>

Init ==
    /\ \/ arg_type = FunctionType /\ func \in Collections
       \/ arg_type \in NonCallableTypes /\ func = None
    /\ ctor = "none"
    /\ ctor_error = NoError
    /\ ident = NoPipeline
    /\ cache = Unset
    /\ factoryCalls = 0
    /\ access = "none"
    /\ runs = 0
    /\ pc = "idle"
    /\ step_order = <<>>
    /\ idx = 0
    /\ calls = <<>>
    /\ work = NoOutcome
    /\ step_run = NoOutcome
    /\ raised = NoError
    /\ error = NoError

\* pipeline(name=..., ...)(func): the decorator is applied.
Decorate ==
    /\ ctor = "none"
    /\ ctor' = decorator(arg_type)
    /\ UNCHANGED <<arg_type, func, ctor_error, ident, cache, factoryCalls, access,
                   runs, pc, step_order, idx, calls, work, step_run, raised, error>>

\* The wrapper is called to obtain the Pipeline.
CallWrapper ==
    /\ ctor = "wrapper"
    /\ ctor' = wrapper(arg_type).ctor
    /\ ctor_error' = wrapper(arg_type).raised
    /\ ident' = IF wrapper(arg_type).ctor = "pipeline" THEN Pipeline_init ELSE ident
    /\ UNCHANGED <<arg_type, func, cache, factoryCalls, access,
                   runs, pc, step_order, idx, calls, work, step_run, raised, error>>

\* A read of pipe.steps from outside run(): the cached value, or one
\* invocation of the factory, cached only when the factory returns.
AccessSteps ==
    /\ ctor = "pipeline"
    /\ pc # "running"
    /\ cache = Unset => factoryCalls < MaxFactoryCalls
    /\ \E out \in {func, FactoryRaised} :
           LET r == steps_property(cache, out) IN
               /\ cache' = r.cache
               /\ factoryCalls' = factoryCalls + r.invoked
               /\ access' = AccessKind(r)
    /\ UNCHANGED <<arg_type, func, ctor, ctor_error, ident, runs, pc, step_order,
                   idx, calls, work, step_run, raised, error>>

\* run() up to the loop over step_order, self.steps having the value c
\* (stored: the cached_property holds it): the emptiness check, then
\* _get_steps().
RunEnter(c, stored) ==
    IF ~Truthy(c)
    THEN /\ pc' = "failed"
         /\ error' = PipelineEmpty
         /\ step_order' = <<>>
         /\ idx' = 0
         /\ cache' = IF stored THEN c ELSE Unset
    ELSE IF get_steps(c).raised # NoError
    THEN /\ pc' = "failed"
         /\ error' = get_steps(c).raised
         /\ step_order' = <<>>
         /\ idx' = 0
         /\ cache' = IF stored THEN get_steps(c).cache ELSE Unset
    ELSE /\ pc' = IF get_steps(c).steps = <<>> THEN "completed" ELSE "running"
         /\ error' = NoError
         /\ step_order' = get_steps(c).steps
         /\ idx' = 1
         /\ cache' = IF stored THEN get_steps(c).cache ELSE Unset

\* A call of pipe.run(), up to the first step: self.steps is read (the
\* factory is invoked when nothing is cached), then the checks are made.
RunStart ==
    /\ ctor = "pipeline"
    /\ pc # "running"
    /\ runs < MaxRuns
    /\ runs' = runs + 1
    /\ calls' = <<>>
    /\ raised' = NoError
    /\ work' = NoOutcome
    /\ step_run' = NoOutcome
    /\ \E out \in {func, FactoryRaised} :
           LET r == steps_property(cache, out) IN
               /\ factoryCalls' = factoryCalls + r.invoked
               /\ access' = AccessKind(r)
               /\ IF r.value = FactoryRaised
                  THEN /\ cache' = r.cache
                       /\ pc' = "failed"
                       /\ error' = FactoryError
                       /\ step_order' = <<>>
                       /\ idx' = 0
                  ELSE RunEnter(r.value, r.cache # Unset)
    /\ UNCHANGED <<arg_type, func, ctor, ctor_error, ident>>

\* Mutant: a step whose work item raised is run again.
RunStep_Retry ==
    /\ pc = "running"
    /\ LET step == step_order[idx] IN
       IF ~IsStep(step)
       THEN /\ pc' = "failed"
            /\ error' = NoNameAttribute
            /\ UNCHANGED <<calls, work, step_run, raised, idx>>
       ELSE \E o \in WorkOutcomes :
                LET r == Step_run(o) IN
                    /\ work' = o
                    /\ step_run' = r.outcome
                    /\ calls' = calls \o [i \in 1..r.invocations |-> step]
                    /\ raised' = IF o.kind = "raise" THEN o.value ELSE raised
                    /\ IF r.outcome.kind = "raise"
                       THEN UNCHANGED <<error, pc, idx>>
                       ELSE /\ pc' = IF idx = Len(step_order) THEN "completed" ELSE "running"
                            /\ idx' = idx + 1
                            /\ UNCHANGED error
    /\ UNCHANGED <<arg_type, func, ctor, ctor_error, ident, cache, factoryCalls,
                   access, runs, step_order>>

\* One turn of run()'s loop: step.name is read, the step is run.
RunStep ==
    /\ pc = "running"
    /\ LET step == step_order[idx] IN
       IF ~IsStep(step)
       THEN /\ pc' = "failed"
            /\ error' = NoNameAttribute
            /\ UNCHANGED <<calls, work, step_run, raised, idx>>
       ELSE \E o \in WorkOutcomes :
                LET r == Step_run(o) IN
                    /\ work' = o
                    /\ step_run' = r.outcome
                    /\ calls' = calls \o [i \in 1..r.invocations |-> step]
                    /\ raised' = IF o.kind = "raise" THEN o.value ELSE raised
                    /\ IF r.outcome.kind = "raise"
                       THEN /\ error' = Reraise(r.outcome.value)
                            /\ pc' = "failed"
                            /\ UNCHANGED idx
                       ELSE /\ pc' = IF idx = Len(step_order) THEN "completed" ELSE "running"
                            /\ idx' = idx + 1
                            /\ UNCHANGED error
    /\ UNCHANGED <<arg_type, func, ctor, ctor_error, ident, cache, factoryCalls,
                   access, runs, step_order>>

Next == Decorate \/ CallWrapper \/ AccessSteps \/ RunStart \/ RunStep

Spec == Init /\ [][Next]_vars

\* run() is a synchronous loop: once started it goes on as long as the
\* work items it calls end.
FairSpec == Spec /\ WF_vars(RunStep)

(* ------------------------ vocabulary of the claims -------------------- *)
\* Stated on the factory's value itself, not through the engine's checks.

\* run() has been called and its read of `steps` produced the collection.
RunSawCollection == pc # "idle" /\ error # FactoryError

IsSequenceOfSteps(c) ==
    c.shape = "list" /\ \A i \in 1..Len(c.items) : c.items[i] # NotAStep

\* The pairs <<A, B>>: A is a key and B is listed in A's value collection.
MappingPairs(c) ==
    UNION {{<<c.items[i][1], c.items[i][2][j]>> : j \in 1..Len(c.items[i][2])} :
           i \in 1..Len(c.items)}

MappingMembers(c) ==
    {c.items[i][1] : i \in 1..Len(c.items)} \cup {p[2] : p \in MappingPairs(c)}

\* A mapping has a cycle exactly when some non-empty set of its members has
\* every member listing another member of the set.
IsCyclicMapping(c) ==
    /\ c.shape = "dict"
    /\ \E S \in SUBSET MappingMembers(c) :
           S # {} /\ \A a \in S : \E b \in S : <<a, b>> \in MappingPairs(c)

IsAcyclicMapping(c) == c.shape = "dict" /\ ~IsCyclicMapping(c)

\* a occurs in xs, and strictly before every occurrence of b.
StrictlyBefore(xs, a, b) ==
    /\ \E i \in 1..Len(xs) : xs[i] = a
    /\ \A j \in 1..Len(xs) :
           xs[j] = b => \E i \in 1..(j - 1) : xs[i] = a

OccursOnce(xs, a) == Cardinality({i \in 1..Len(xs) : xs[i] = a}) = 1

(* ------------------------------- claims ------------------------------- *)

\* C1: a run() on a non-empty list of Steps invokes the work items in the
\* list's own order, the i-th invocation being the i-th element's; it ends
\* only by a work item failing or, every element having been invoked once,
\* by returning normally.
C1_SequenceRunsInOrder ==
    (IsSequenceOfSteps(func) /\ func.items # <<>> /\ RunSawCollection) =>
        /\ pc \in {"running", "completed"} =>
               calls = SubSeq(func.items, 1, idx - 1) /\ error = NoError
        /\ pc = "completed" => calls = func.items
        /\ pc = "failed" => raised \in Failures

\* C1 witness: the three-step list of test_pipeline_completion has run.
C1_Witness ==
    /\ func = List(<<step_one, step_two, step_three>>)
    /\ pc = "completed"
    /\ calls = <<step_one, step_two, step_three>>

\* C2 as stated: in a completed run() on an acyclic mapping, B's work item
\* is invoked strictly before A's for every key A and every B listed under A.
C2_ValueBeforeKey ==
    (IsAcyclicMapping(func) /\ pc = "completed") =>
        \A p \in MappingPairs(func) : StrictlyBefore(calls, p[2], p[1])

\* C2 as amended: on an acyclic mapping run() invokes A's work item
\* strictly before B's for every key A and every B listed under A: B's is
\* never invoked unless A's was invoked earlier in the run, and a completed
\* run has invoked both.
C2_KeyBeforeValue ==
    (IsAcyclicMapping(func) /\ RunSawCollection) =>
        \A p \in MappingPairs(func) :
            /\ \A j \in 1..Len(calls) :
                   calls[j] = p[2] => \E i \in 1..(j - 1) : calls[i] = p[1]
            /\ pc = "completed" => StrictlyBefore(calls, p[1], p[2])

\* C2 witness: a completed run on a mapping with a key and a listed Step.
C2_Witness ==
    /\ func = Dict(<< <<step_one, <<step_two>>>> >>)
    /\ pc = "completed"
    /\ calls = <<step_one, step_two>>

\* C3: for the mapping {five: [two], two: [three], three: [four, one],
\* four: [one]} the resolved order is five, two, three, four, one, and a
\* run() in which no step fails makes exactly those invocations in that
\* order.
C3_TestMappingOrder ==
    (func = TestMapping /\ RunSawCollection) =>
        /\ pc \in {"running", "completed"} =>
               step_order = <<step_five, step_two, step_three, step_four, step_one>>
        /\ pc = "completed" =>
               calls = <<step_five, step_two, step_three, step_four, step_one>>
        /\ pc = "failed" => raised \in Failures

\* C3 witness: the run on the test's mapping has completed.
C3_Witness ==
    /\ func = TestMapping
    /\ pc = "completed"
    /\ Len(calls) = 5

\* C4: for an acyclic mapping the resolved order holds every member of the
\* mapping (key or listed) exactly once, with every key before each Step
\* listed under it, and the work items are invoked in that order.
C4_ReverseTopologicalOrder ==
    (IsAcyclicMapping(func) /\ pc \in {"running", "completed"}) =>
        /\ Range(step_order) = MappingMembers(func)
        /\ \A a \in MappingMembers(func) : OccursOnce(step_order, a)
        /\ \A p \in MappingPairs(func) : StrictlyBefore(step_order, p[1], p[2])
        /\ calls = SubSeq(step_order, 1, idx - 1)
        /\ pc = "completed" => calls = step_order

\* C4 witness: a Step listed under two keys has run once.
C4_Witness ==
    /\ func = Dict(<< <<step_one, <<step_two>>>>, <<step_three, <<step_two>>>> >>)
    /\ pc = "completed"
    /\ OccursOnce(calls, step_two)
    /\ Len(calls) = 3

\* C5: when a work item fails, the run() has invoked exactly the steps of
\* the resolved order up to the failing one, each once and in order, invokes
\* none after it, and raises to its caller the failure the work item raised.
C5_FailFast ==
    (pc = "failed" /\ raised # NoError) =>
        /\ idx \in 1..Len(step_order)
        /\ calls = SubSeq(step_order, 1, idx)
        /\ raised \in Failures
        /\ error = raised

\* C5 witness: the middle step of a three-step list has failed.
C5_Witness ==
    /\ func = List(<<step_one, step_two, step_three>>)
    /\ pc = "failed"
    /\ calls = <<step_one, step_two>>
    /\ error = [type |-> "Exception", msg |-> <<"Something went wrong">>]

\* C6: on a mapping with a cycle (a two-node cycle, a self-loop, with or
\* without members outside the cycle) run() fails with graphlib's
\* CycleError and invokes no work item.
C6_CycleFailsBeforeAnyStep ==
    (IsCyclicMapping(func) /\ RunSawCollection) =>
        /\ pc = "failed"
        /\ error = CycleError
        /\ calls = <<>>
        /\ step_order = <<>>

\* C6 witness: the run on {A: [B], B: [A]} has failed with CycleError.
C6_Witness ==
    /\ func = Dict(<< <<step_one, <<step_two>>>>, <<step_two, <<step_one>>>> >>)
    /\ pc = "failed"
    /\ error = CycleError

\* C7: on a non-empty list with an element that is not a Step, wherever it
\* stands, run() fails with the TypeError "Not a valid step ..." and no
\* work item is invoked.
C7_NonStepInSequence ==
    (/\ func.shape = "list"
     /\ \E i \in 1..Len(func.items) : func.items[i] = NotAStep
     /\ RunSawCollection) =>
        /\ pc = "failed"
        /\ error = NotAValidStep
        /\ calls = <<>>

\* C7 witness: the non-Step stands behind a valid Step.
C7_Witness ==
    /\ func = List(<<step_one, NotAStep>>)
    /\ pc = "failed"
    /\ error = NotAValidStep

\* C8: on an empty list, dict or tuple, or on None, run() fails with the
\* Exception whose message names the pipeline; no order is resolved and no
\* work item is invoked.
C8_EmptyPipeline ==
    (/\ func.shape = "none" \/ (func.shape \in {"list", "dict", "tuple"} /\ func.items = <<>>)
     /\ RunSawCollection) =>
        /\ pc = "failed"
        /\ error.type = "Exception"
        /\ error.msg = <<"Pipeline ", name, " has no steps to run.">>
        /\ step_order = <<>>
        /\ calls = <<>>

\* C8 witness: the run on an empty list has failed.
C8_Witness ==
    /\ func = List(<<>>)
    /\ pc = "failed"
    /\ error = PipelineEmpty

\* C9: when the factory's value is neither a list nor a dict and is not
\* empty or None (a bare Step, a non-empty tuple), run() fails with the
\* TypeError "Pipeline steps must be in a list or a dict." and no work item
\* is invoked.
C9_NeitherListNorDict ==
    (/\ func.shape = "step" \/ (func.shape = "tuple" /\ func.items # <<>>)
     /\ RunSawCollection) =>
        /\ pc = "failed"
        /\ error = NotListOrDict
        /\ calls = <<>>

\* C9 witness: the run on a bare Step has failed.
C9_Witness ==
    /\ func = BareStep
    /\ pc = "failed"
    /\ error = NotListOrDict

\* C10: the factory is invoked at most once, whatever reads of `steps` and
\* calls of run() are made.
C10_FactoryAtMostOnce == factoryCalls <= 1

\* C11: when the decorator's argument is not callable, obtaining the
\* Pipeline fails with a TypeError whose message carries type(func); no
\* Pipeline exists, the argument is never invoked and nothing runs.
C11_NonCallableRejected ==
    arg_type \in NonCallableTypes =>
        /\ ctor # "pipeline"
        /\ ident = NoPipeline
        /\ factoryCalls = 0
        /\ pc = "idle" /\ calls = <<>>
        /\ ctor = "failed" =>
               /\ ctor_error.type = "TypeError"
               /\ ctor_error.msg =
                      <<"The pipeline decorator only accepts functions. Passed ", arg_type>>

\* C11 witness: the construction from a str has failed.
C11_Witness ==
    /\ arg_type = "<class 'str'>"
    /\ ctor = "failed"
    /\ ctor_error.type = "TypeError"

\* C12: a Step.run() calls the work item exactly once; when the work item
\* returns, its value is dropped and Step.run() returns None; when it
\* raises, Step.run() raises that same exception.
C12_StepRun ==
    [][(pc = "running" /\ step_order[idx] # NotAStep) =>
           /\ calls' = Append(calls, step_order[idx])
           /\ work' \in WorkOutcomes
           /\ work'.kind = "return" => step_run' = [kind |-> "return", value |-> PyNone]
           /\ work'.kind = "raise" => step_run' = work'
      ]_vars

\* C12 witness: a work item has returned its value and Step.run() None.
C12_Witness ==
    /\ work = [kind |-> "return", value |-> WorkValue]
    /\ step_run = [kind |-> "return", value |-> PyNone]
    /\ calls # <<>>

\* C13: on an acyclic mapping in which a key or a listed member is not a
\* Step, run() invokes no work item and fails with the TypeError of the
\* Step validation.
C13_MappingFullyValidated ==
    (IsAcyclicMapping(func) /\ NotAStep \in MappingMembers(func) /\ RunSawCollection) =>
        /\ calls = <<>>
        /\ pc \in {"completed", "failed"} => (pc = "failed" /\ error = NotAValidStep)

\* C14 as stated: applying the decorator to an argument that is not
\* callable raises, so no wrapper ever exists for it.
C14_RejectedAtDecoration ==
    arg_type \in NonCallableTypes => ctor # "wrapper"

\* C14 as amended: applying the decorator to an argument that is not
\* callable returns the wrapper without raising; the TypeError is raised
\* when that wrapper is called to obtain the Pipeline.
C14_RejectedAtWrapperCall ==
    [][(arg_type \in NonCallableTypes) =>
           /\ ctor = "none" => (ctor' = "wrapper" /\ ctor_error' = NoError)
           /\ ctor = "wrapper" => (ctor' = "failed" /\ ctor_error'.type = "TypeError")
           /\ ctor' = "failed" => ctor = "wrapper"
      ]_vars

\* C14 witness: the decorator has been applied to a str and returned.
C14_Witness ==
    /\ arg_type = "<class 'str'>"
    /\ ctor = "wrapper"
    /\ ctor_error = NoError

\* C15: once `steps` holds the collection it holds it for good, and a
\* run() that has got past its read of `steps` (to the emptiness check, the
\* order resolution or a work item) finds the factory invoked and the
\* collection cached.
C15_MaterializedFirstAndForGood ==
    /\ [](RunSawCollection => (cache # Unset /\ factoryCalls >= 1))
    /\ [][cache # Unset => cache' # Unset]_vars

\* C15 witness: `steps` was read and holds the collection, run() was never
\* called.
C15_Witness ==
    /\ cache # Unset
    /\ runs = 0
    /\ pc = "idle"

\* C16: a run() never stays in its loop: every turn either moves on to the
\* next step of the resolved order or ends the run, so a running run()
\* always ends, either completed with exactly the resolved order invoked,
\* or failed with the invocations stopped at the failing step.
C16_RunTerminates ==
    /\ (pc = "running") ~> (pc \in {"completed", "failed"})
    /\ [][(pc = "running") =>
              \/ pc' = "running" /\ idx' = idx + 1 /\ idx' <= Len(step_order)
              \/ pc' \in {"completed", "failed"}
         ]_vars
    /\ [](pc = "completed" => (calls = step_order /\ error = NoError))
    /\ []((pc = "failed" /\ RunSawCollection) =>
              (error # NoError /\ Len(calls) <= idx /\ calls = SubSeq(step_order, 1, Len(calls))))

\* C16 witness: a second run() has ended completed after more than one
\* turn of the loop.
C16_Witness ==
    /\ runs = MaxRuns
    /\ pc = "completed"
    /\ Len(calls) >= 2

\* C17: the type of the exception run() raises tells a failing work item
\* from run()'s own failures: what a work item raised never surfaces with
\* the type of the empty-pipeline error, of the configuration errors or of
\* the cycle error.
C17_KindTellsSource ==
    (pc = "failed" /\ raised # NoError) =>
        error.type \notin {PipelineEmpty.type, NotListOrDict.type,
                           NotAValidStep.type, CycleError.type}

\* C18: once the Pipeline is built, no read of `steps` and no run(),
\* ended either way, changes name, version or description, and a cached
\* collection stays as it is (shape, members and order).
C18_PipelineUnchanged ==
    [][(ctor = "pipeline") =>
           /\ ident = Pipeline_init
           /\ ident' = ident
           /\ cache # Unset => cache' = cache
      ]_vars

\* C18 witness: a run() on a two-key mapping has completed and the cache
\* still holds the mapping as the factory returned it.
C18_Witness ==
    /\ func = Dict(<< <<step_one, <<step_two>>>>, <<step_two, <<>>>> >>)
    /\ pc = "completed"
    /\ cache = func
    /\ ident = Pipeline_init

\* C19: a run() called after an earlier run() has ended reads the cached
\* collection (the factory is not invoked again) and starts at the first
\* step of the same resolved order with nothing invoked yet.
C19_RerunFromCache ==
    /\ (runs >= 2 /\ pc = "running") =>
           /\ access = "cached"
           /\ step_order = get_steps(func).steps
           /\ calls = SubSeq(step_order, 1, idx - 1)
    /\ (runs >= 2 /\ pc = "failed") => error # FactoryError

\* C20: the first check that applies decides how run() fails, in the order
\* emptiness, shape, cycle, Step validation, and no work item is invoked:
\* an empty or None value gives the empty-pipeline Exception; otherwise a
\* value that is neither list nor dict gives the shape TypeError; otherwise
\* a cyclic mapping gives CycleError, whatever its keys are; otherwise a
\* list element or mapping key that is not a Step gives the validation
\* TypeError.
C20_ChecksInOrder ==
    RunSawCollection =>
        LET empty == func.shape = "none" \/
                     (func.shape \in {"list", "dict", "tuple"} /\ func.items = <<>>)
            shaped == func.shape \in {"list", "dict"}
            cyclic == IsCyclicMapping(func)
            nonStep == \/ func.shape = "list" /\ ~IsSequenceOfSteps(func)
                       \/ func.shape = "dict" /\
                              \E i \in 1..Len(func.items) : func.items[i][1] = NotAStep
        IN  /\ empty => (pc = "failed" /\ error = PipelineEmpty /\ calls = <<>>)
            /\ (~empty /\ ~shaped) =>
                   (pc = "failed" /\ error = NotListOrDict /\ calls = <<>>)
            /\ (~empty /\ shaped /\ cyclic) =>
                   (pc = "failed" /\ error = CycleError /\ calls = <<>>)
            /\ (~empty /\ shaped /\ ~cyclic /\ nonStep) =>
                   (pc = "failed" /\ error = NotAValidStep /\ calls = <<>>)

\* C20 witness: the run on a two-key cycle with a key that is not a Step
\* has failed with CycleError.
C20_Witness ==
    /\ func = Dict(<< <<NotAStep, <<step_one>>>>, <<step_one, <<NotAStep>>>> >>)
    /\ pc = "failed"
    /\ error = CycleError
    /\ calls = <<>>

====
